---------------------------- MODULE Spec2Model ----------------------------
(***************************************************************************)
(* Per-frame input-to-locomotion mapping of the WebXR scene viewer.        *)
(*                                                                         *)
(* Three revisions of the animation loop are modelled:                     *)
(*   "main"  : src/public/main.js            (AVP navigation + debug HUD)  *)
(*   "avp"   : src/unnamed/part_000:1-327    (AVP navigation)              *)
(*   "hands" : src/unnamed/part_000:329-588  (sticks + hand pinches)       *)
(*                                                                         *)
(* Fixed-point units (all quantities are integers):                        *)
(*   axis values     : hundredths            (0.12 -> 12, 1.0 -> 100)      *)
(*   time            : milliseconds          (0.05 s -> 50)                *)
(*   speeds          : tenths of m/s         (2.0 -> 20, 2.2 -> 22)        *)
(*   rotate speed    : degrees per second    (degToRad(100) -> 100)        *)
(*   directions      : fifths (a unit vector has squared length 25)        *)
(*   scale factors   : millionths            (axis*speed*dt)               *)
(*   positions       : 1/(5*10^6) m          (direction * scale factor)    *)
(*   yaw             : 10^-5 degrees         (axis*rotateSpeed*dt)         *)
(*   joint distances : millimetres           (0.025 m -> 25)               *)
(***************************************************************************)
EXTENDS Integers, Sequences, FiniteSets, TLC

VARIABLES
    rev,               \* which revision of the program is running
    position,          \* dolly.position / player.position
    yaw,               \* yawPivot.rotation.y
    controllerStates,  \* controllerStates.left / .right
    userData,          \* controller1/2 .userData {isSelecting, inputSource}
    controlsEnabled,   \* controls.enabled (desktop OrbitControls)
    isPresenting,      \* renderer.xr.isPresenting
    hud,               \* first line last written to the debug HUD
    frames,            \* number of XR frames run so far
    armed,             \* history: per controller, a selectstart has occurred
                       \* with no selectend and no disconnected since
    last               \* what the last step was and what it sampled

vars == <<rev, position, yaw, controllerStates, userData, controlsEnabled,
          isPresenting, hud, frames, armed, last>>

\* null / undefined of an object-valued field
Null == [null |-> TRUE]

\* ------------------------------------------------------------------ bounds
MaxFrames == 2

\* --------------------------------------------------------------- constants
deadzone == 12
stickDeadzone == 15
moveSpeed == 20
moveSpeedHands == 22
strafeSpeed == 20
stepSpeedMain == 100
stepSpeedAVP == 200
rotateSpeed == 100
pinchThreshold == 25
rotateDeadzone == 15
MaxDt == 50

\* ------------------------------------------------------------ vector maths
Abs(n) == IF n < 0 THEN -n ELSE n
Sign(n) == IF n < 0 THEN -1 ELSE IF n > 0 THEN 1 ELSE 0
\* A variant of Math.min that returns its first argument, the real elapsed
\* time: C11 does not hold of it.
MutNoClamp(a, b) == a

Min(a, b) == IF a < b THEN a ELSE b

Vec(x, y, z) == <<x, y, z>>
Zero3 == Vec(0, 0, 0)
negate(v) == Vec(-v[1], -v[2], -v[3])
lengthSq(v) == v[1] * v[1] + v[2] * v[2] + v[3] * v[3]
dot(a, b) == a[1] * b[1] + a[2] * b[2] + a[3] * b[3]
cross(a, b) == Vec(a[2] * b[3] - a[3] * b[2],
                   a[3] * b[1] - a[1] * b[3],
                   a[1] * b[2] - a[2] * b[1])
\* A variant of the flattening that keeps the Y component: C17 does not hold
\* of it.
MutKeepY(v) == v

\* v.y = 0
setY0(v) == Vec(v[1], 0, v[3])

\* Vector3.length() of a grid vector (the inputs have whole lengths).
length(v) == CHOOSE r \in 0..9 : r * r = lengthSq(v)

\* Vector3.normalize(): divideScalar(length() || 1); the zero vector stays
\* zero, any other becomes a unit vector (length 5 fifths).
normalize(v) ==
    IF lengthSq(v) = 0 THEN v
    ELSE LET len == length(v)
         IN Vec((v[1] * 5) \div len, (v[2] * 5) \div len, (v[3] * 5) \div len)

\* Vector3.addScaledVector(v, s)
addScaledVector(p, v, s) == Vec(p[1] + v[1] * s, p[2] + v[2] * s, p[3] + v[3] * s)

\* ------------------------------------------------------------ input sources
\* String.toLowerCase() on the profile ids the devices report.
toLowerCase(p) ==
    CASE p = "Oculus-Touch" -> "oculus-touch"
      [] p = "Generic-Hand" -> "generic-hand"
      [] OTHER -> p

\* String.includes(word) on the lower-cased profile ids.
includes(s, word) ==
    CASE word = "vision" -> s \in {"apple-vision-pro"}
      [] word = "hand"   -> s \in {"generic-hand"}
      [] word = "touch"  -> s \in {"oculus-touch"}
      [] OTHER -> FALSE

\* isVisionProInputSource(inputSource)
isVisionProInputSource(inputSource) ==
    IF inputSource = Null THEN FALSE
    ELSE IF inputSource.handedness = "none" THEN TRUE
    ELSE \E i \in 1..Len(inputSource.profiles) :
            LET s == toLowerCase(inputSource.profiles[i])
            IN includes(s, "vision") \/ includes(s, "hand") \/ includes(s, "touch")

\* gp.axes[i] || 0  and  gp.axes[i] ?? 0  (JavaScript index i, from 0): they
\* agree on numbers and on undefined.
axisOrZero(axes, i) == IF i + 1 <= Len(axes) THEN axes[i + 1] ELSE 0

EmptySlot == [x |-> 0, y |-> 0, isVision |-> FALSE, input |-> Null]

\* resetStates()
resetStates == [left |-> EmptySlot, right |-> EmptySlot]

\* A variant of the forEach body that reads axes[0] and axes[1] without the
\* length test: C10 does not hold of it.
MutSampleShortAxes(states, src) ==
    IF src.gamepad = Null THEN states
    ELSE
      LET isVP == isVisionProInputSource(src)
          slot == [x |-> axisOrZero(src.gamepad.axes, 0),
                   y |-> axisOrZero(src.gamepad.axes, 1),
                   isVision |-> isVP, input |-> src]
          st   == IF src.handedness = "left" THEN "left" ELSE "right"
          s1   == [states EXCEPT ![st] = slot]
      IN IF src.handedness = "none" /\ isVP
         THEN [s1 EXCEPT !["left"] = [slot EXCEPT !.isVision = TRUE]]
         ELSE s1

\* the body of session.inputSources.forEach(src => ...) in updateInputStates
sampleSource(states, src) ==
    IF src.gamepad = Null THEN states
    ELSE
      LET gp     == src.gamepad
          handed == src.handedness
          isVP   == isVisionProInputSource(src)
          two    == Len(gp.axes) >= 2
          x      == IF two THEN axisOrZero(gp.axes, 0) ELSE 0
          y      == IF two THEN axisOrZero(gp.axes, 1) ELSE 0
          st     == IF handed = "left" THEN "left" ELSE "right"
          s1     == [states EXCEPT ![st] =
                        [x |-> x, y |-> y, isVision |-> isVP, input |-> src]]
      IN IF handed = "none" /\ isVP
         THEN [s1 EXCEPT !["left"] =
                  [x |-> x, y |-> y, isVision |-> TRUE, input |-> src]]
         ELSE s1

RECURSIVE sampleSources(_, _)
sampleSources(states, srcs) ==
    IF srcs = <<>> THEN states
    ELSE sampleSources(sampleSource(states, Head(srcs)), Tail(srcs))

\* A variant of updateInputStates that does not call resetStates(): C9 does
\* not hold of it.
MutSampleOverStale(frame) ==
    IF frame = Null THEN controllerStates
    ELSE IF frame.session = Null THEN controllerStates
    ELSE sampleSources(controllerStates, frame.session.inputSources)

\* updateInputStates(frame): frame is Null, or [session |-> Null], or
\* [session |-> [inputSources |-> <<...>>]]
updateInputStates(frame) ==
    IF frame = Null THEN resetStates
    ELSE IF frame.session = Null THEN resetStates
    ELSE sampleSources(resetStates, frame.session.inputSources)

\* ------------------------------------------------------------- head helpers
\* headForwardXZ(): camera.getWorldDirection flattened to Y=0, with the
\* (0,0,-1) fallback when the head looks straight up or down.
headForwardXZ(camDir) ==
    LET v == setY0(camDir)
    IN normalize(IF lengthSq(v) = 0 THEN Vec(0, 0, -1) ELSE v)

\* headRightXZ() of the "hands" revision: the camera's +X axis flattened.
headRightXZ(camRight) == normalize(setY0(camRight))

\* Object3D.getWorldDirection of a controller: its +Z axis, the opposite of
\* the pointing ray ("controllers/gaze rays point -Z").
getWorldDirection(ray) == negate(ray)

\* --------------------------------------------------------------- axis drive
\* Variants of the deadzone filter: one without a deadzone (C5 does not hold
\* of it), one that also zeroes a value exactly at the threshold (C6 does not
\* hold of it).
MutNoDeadzone(v, dz) == v
MutDeadzoneInclusive(v, dz) == IF Abs(v) <= dz THEN 0 ELSE v

\* Math.abs(v) < dz ? 0 : v
deadzoneFilter(v, dz) == IF Abs(v) < dz THEN 0 ELSE v

\* The (x, y) pair applyAVPAxes drives with: the filtered left axes, or the
\* filtered right axes when the left are zero and the right is Vision-Pro-like.
drivenAxes(states) ==
    LET L  == states.left
        dz == deadzone
        x  == deadzoneFilter(L.x, dz)
        y  == deadzoneFilter(L.y, dz)
    IN IF x = 0 /\ y = 0 /\ states.right.isVision
       THEN [x |-> deadzoneFilter(states.right.x, dz),
             y |-> deadzoneFilter(states.right.y, dz)]
       ELSE [x |-> x, y |-> y]

\* A variant of applyAVPAxes that also strafes with the X axis: C4 does not
\* hold of it.
MutAxesStrafe(states, pos, camDir, dt, hudNow) ==
    LET a   == drivenAxes(states)
        fwd == headForwardXZ(camDir)
    IN IF a.x = 0 /\ a.y = 0
       THEN [used |-> FALSE, pos |-> pos, hud |-> hudNow]
       ELSE [used |-> TRUE,
             pos  |-> addScaledVector(
                        addScaledVector(pos, fwd, (-a.y) * moveSpeed * dt),
                        Vec(-fwd[3], 0, fwd[1]), a.x * moveSpeed * dt),
             hud  |-> "AXES LOCOMOTION"]

\* applyAVPAxes(dt) of main.js: [used, pos, hud]
applyAVPAxesMain(states, pos, camDir, dt, hudNow) ==
    LET a == drivenAxes(states)
    IN IF a.x = 0 /\ a.y = 0
       THEN [used |-> FALSE, pos |-> pos, hud |-> hudNow]
       ELSE [used |-> TRUE,
             pos  |-> addScaledVector(pos, headForwardXZ(camDir), (-a.y) * moveSpeed * dt),
             hud  |-> "AXES LOCOMOTION"]

\* A variant of the "avp" revision's applyAVPAxes whose non-Vision-Pro branch
\* leaves the rig where it is: C18 does not hold of it.
MutAxesOnlyVP(states, pos, camDir, dt, hudNow) ==
    LET a    == drivenAxes(states)
        isVP == states.left.isVision \/ states.right.isVision
    IN IF a.x = 0 /\ a.y = 0
       THEN [used |-> FALSE, pos |-> pos, hud |-> hudNow]
       ELSE [used |-> TRUE,
             pos  |-> IF isVP
                      THEN addScaledVector(pos, headForwardXZ(camDir), (-a.y) * moveSpeed * dt)
                      ELSE pos,
             hud  |-> hudNow]

\* applyAVPAxes(dt) of the "avp" revision: both branches of isVP move alike.
applyAVPAxesAVP(states, pos, camDir, dt, hudNow) ==
    LET a    == drivenAxes(states)
        isVP == states.left.isVision \/ states.right.isVision
    IN IF a.x = 0 /\ a.y = 0
       THEN [used |-> FALSE, pos |-> pos, hud |-> hudNow]
       ELSE [used |-> TRUE,
             pos  |-> IF isVP
                      THEN addScaledVector(pos, headForwardXZ(camDir), (-a.y) * moveSpeed * dt)
                      ELSE addScaledVector(pos, headForwardXZ(camDir), (-a.y) * moveSpeed * dt),
             hud  |-> hudNow]

\* ------------------------------------------------------------- select steps
\* Math.hypot(x, y) > dz, compared on the squares.
hypotExceeds(x, y, dz) == x * x + y * y > dz * dz

anyAxes(states) ==
    \/ hypotExceeds(states.left.x, states.left.y, deadzone)
    \/ hypotExceeds(states.right.x, states.right.y, deadzone)

\* A variant of the select step that does not look at isSelecting: C8 does
\* not hold of it.
MutStepWithoutSelect(pos, ctrl, ray, dt) ==
    LET dirXZ == normalize(setY0(getWorldDirection(ray)))
    IN IF isVisionProInputSource(ctrl.inputSource) /\ lengthSq(dirXZ) > 0
       THEN addScaledVector(pos, dirXZ, 100 * stepSpeedMain * dt)
       ELSE pos

\* One controller's turn in the forEach of main.js: the world direction is
\* used as it is ("forward already").
selectStepMain(pos, ctrl, ray, dt) ==
    LET isSel == ctrl.isSelecting
        isVP  == isVisionProInputSource(ctrl.inputSource)
        dirXZ == normalize(setY0(getWorldDirection(ray)))
    IN IF isSel /\ isVP /\ lengthSq(dirXZ) > 0
       THEN addScaledVector(pos, dirXZ, 100 * stepSpeedMain * dt)
       ELSE pos

\* One controller's turn in the forEach of the "avp" revision: the world
\* direction is negated first.
selectStepAVP(pos, ctrl, ray, dt) ==
    LET dir == setY0(negate(getWorldDirection(ray)))
    IN IF ~ctrl.isSelecting THEN pos
       ELSE IF ~isVisionProInputSource(ctrl.inputSource) THEN pos
       ELSE IF lengthSq(dir) = 0 THEN pos
       ELSE addScaledVector(pos, normalize(dir), 100 * stepSpeedAVP * dt)

\* applyAVPSelectStep(dt) of main.js: [pos, hud]
applyAVPSelectStepMain(states, pos, ud, rays, dt) ==
    IF anyAxes(states)
    THEN [pos |-> pos, hud |-> "AXES ACTIVE (prefer axes path)"]
    ELSE [pos |-> selectStepMain(selectStepMain(pos, ud[1], rays[1], dt),
                                 ud[2], rays[2], dt),
          hud |-> "SELECT STEP"]

\* applyAVPSelectStep(dt) of the "avp" revision
applyAVPSelectStepAVP(states, pos, ud, rays, dt) ==
    IF anyAxes(states) THEN pos
    ELSE selectStepAVP(selectStepAVP(pos, ud[1], rays[1], dt), ud[2], rays[2], dt)

\* ------------------------------------------------------ "hands" revision
\* jointWorldPos / isPinching(hand): a hand is [joints |-> Null] when its
\* joints are not tracked, else [joints |-> [tipDistance, lateral]] with the
\* index-tip to thumb-tip distance and the lateral offset of the index tip.
isPinching(hand) ==
    IF hand.joints = Null THEN FALSE
    ELSE hand.joints.tipDistance < pinchThreshold

\* leftHandRotateRate(), in hundredths (-100..100)
leftHandRotateRate(hand) ==
    IF hand.joints = Null THEN 0
    ELSE LET lateral == hand.joints.lateral
             dz      == rotateDeadzone
         IN IF Abs(lateral) < dz THEN 0
            ELSE ((lateral - Sign(lateral) * dz) * 100) \div (100 - dz)

\* One input source's turn in the for-of loop of updateXRMovement.
stickStep(rig, src, cam, dt) ==
    IF src.gamepad = Null THEN rig
    ELSE
      LET gp  == src.gamepad
          lsx == axisOrZero(gp.axes, 0)
          lsy == axisOrZero(gp.axes, 1)
          rsx == axisOrZero(gp.axes, 2)
          dz  == stickDeadzone
          LX  == deadzoneFilter(lsx, dz)
          LY  == deadzoneFilter(lsy, dz)
          RX  == deadzoneFilter(rsx, dz)
          p1  == IF LX # 0 \/ LY # 0
                 THEN addScaledVector(
                        addScaledVector(rig.pos, headForwardXZ(cam.dir),
                                        (-LY) * moveSpeedHands * dt),
                        headRightXZ(cam.right), LX * strafeSpeed * dt)
                 ELSE rig.pos
          y1  == IF RX # 0 THEN rig.yaw - RX * rotateSpeed * dt ELSE rig.yaw
      IN [pos |-> p1, yaw |-> y1]

RECURSIVE stickSteps(_, _, _, _)
stickSteps(rig, srcs, cam, dt) ==
    IF srcs = <<>> THEN rig
    ELSE stickSteps(stickStep(rig, Head(srcs), cam, dt), Tail(srcs), cam, dt)

\* The pinch part of updateXRMovement: right pinch moves forward, left pinch
\* rotates in place.
pinchStep(rig, hands, cam, dt) ==
    LET leftPinch  == isPinching(hands[1])
        rightPinch == isPinching(hands[2])
        p1 == IF rightPinch
              THEN addScaledVector(rig.pos, headForwardXZ(cam.dir),
                                   100 * moveSpeedHands * dt)
              ELSE rig.pos
        y1 == IF leftPinch
              THEN rig.yaw + leftHandRotateRate(hands[1]) * rotateSpeed * dt
              ELSE rig.yaw
    IN [pos |-> p1, yaw |-> y1]

\* updateXRMovement(dt): session is Null or [inputSources |-> <<...>>]
updateXRMovement(rig, session, hands, cam, dt) ==
    IF session = Null THEN rig
    ELSE pinchStep(stickSteps(rig, session.inputSources, cam, dt), hands, cam, dt)

\* ------------------------------------------------------------ input domains
Revisions == {"main", "avp", "hands"}
Controllers == {1, 2}

PlainProfiles == <<"generic-trigger">>
TouchProfiles == <<"Oculus-Touch", "generic-trigger">>

Src(h, p, g) == [handedness |-> h, profiles |-> p, gamepad |-> g]
Pad(a) == [axes |-> a]

\* The program creates two controllers and two hands: a session reports up
\* to two input sources per frame, of different handedness. A left and a
\* right source write different slots, so their order is immaterial and the
\* left one comes first; a source of handedness 'none' comes in either order.
SrcLists(S) ==
    {<<>>} \cup {<<a>> : a \in S}
           \cup {q \in [1..2 -> S] :
                    /\ q[1].handedness # q[2].handedness
                    /\ q[1].handedness = "right" => q[2].handedness = "none"}

Sessions(S) == {Null} \cup {[inputSources |-> q] : q \in SrcLists(S)}
FrameArgs(S) == {Null} \cup {[session |-> s] : s \in Sessions(S)}

\* real time between two frames, clock.getDelta(): a regular frame and a
\* stalled one
FrameTime == 16
StallTime == 80

\* head poses: the camera's world direction and its +X axis
PoseAhead == [dir |-> Vec(0, 0, -5), right |-> Vec(5, 0, 0)]
PoseTilted == [dir |-> Vec(4, -3, 0), right |-> Vec(0, 0, 5)]
PoseDown == [dir |-> Vec(0, -5, 0), right |-> Vec(5, 0, 0)]

\* what a frame sees: the time since the frame before and the head pose
View(elapsed, cam) == [elapsed |-> elapsed, cam |-> cam]

RayAhead == Vec(0, 0, -5)
RaySide == Vec(3, 0, -4)
RayUp == Vec(0, 5, 0)
RayTilted == Vec(3, -4, 0)

HandNone == [joints |-> Null]
Hand(d, l) == [joints |-> [tipDistance |-> d, lateral |-> l]]

\* the XRInputSource handed to a 'connected' listener: a transient pointer
\* without handedness (Vision-Pro-like)
ConnectSources == { Src("none", PlainProfiles, Null) }

\* Inputs of the event-driven specification: every event, few frame inputs.
SourcesBasic ==
    { Src("left", TouchProfiles, Pad(<<0, -100>>)),
      Src("right", TouchProfiles, Pad(<<0, 0>>)) }
SticksBasic ==
    { Src("left", TouchProfiles, Pad(<<0, -100, 100, 0>>)),
      Src("right", TouchProfiles, Pad(<<0, 0, 0, 0>>)) }

DomBasic ==
    [ views    |-> {View(FrameTime, PoseAhead), View(StallTime, PoseDown)},
      frames   |-> {Null} \cup {[session |-> [inputSources |-> q]] :
                                   q \in SrcLists(SourcesBasic) \ {<<>>}},
      sessions |-> Sessions(SticksBasic),
      rays     |-> { <<RaySide, RayAhead>>, <<RayUp, RayTilted>> },
      hands    |-> { <<HandNone, HandNone>>, <<Hand(10, 100), Hand(10, 0)>> } ]

\* Inputs of the sampling specification: many axis values, no events.
SourcesAxes ==
    { Src("left",  PlainProfiles, Pad(<<100, -100>>)),
      Src("left",  PlainProfiles, Pad(<<0, 12>>)),
      Src("left",  TouchProfiles, Pad(<<10, 10>>)),
      Src("right", PlainProfiles, Pad(<<0, -100>>)),
      Src("right", PlainProfiles, Pad(<<0, 12>>)),
      Src("right", TouchProfiles, Pad(<<0, 100>>)),
      Src("none",  PlainProfiles, Pad(<<100>>)),
      Src("left",  TouchProfiles, Null) }

SourcesSticks ==
    { Src("left",  TouchProfiles, Pad(<<100, -100, 100, 0>>)),
      Src("left",  TouchProfiles, Pad(<<0, 15, 15, 0>>)),
      Src("right", TouchProfiles, Pad(<<10, 10, 10, 0>>)),
      Src("none",  PlainProfiles, Null) }

DomAxes ==
    [ views    |-> {View(FrameTime, PoseAhead), View(StallTime, PoseTilted)},
      frames   |-> FrameArgs(SourcesAxes),
      sessions |-> Sessions(SourcesSticks),
      rays     |-> { <<RaySide, RayAhead>> },
      hands    |-> { <<HandNone, HandNone>>, <<Hand(10, 100), Hand(10, 0)>> } ]

\* -------------------------------------------------------------------- state
DollyStart == Vec(-25000000, 0, 60000000)

NoHands == [i \in 1..2 |-> HandNone]
NoRays == [i \in 1..2 |-> Zero3]
NoPose == [dir |-> Zero3, right |-> Zero3]

\* the record of a step that sampled nothing
Quiet(op) ==
    [op |-> op, frame |-> Null, cam |-> NoPose, rays |-> NoRays, hands |-> NoHands,
     elapsed |-> 0, dt |-> 0, before |-> Zero3, yawBefore |-> 0, statesBefore |-> resetStates,
     usedAxes |-> FALSE, afterAxes |-> Zero3]

Init ==
    /\ rev \in Revisions
    /\ position = DollyStart
    /\ yaw = 0
    /\ controllerStates = resetStates
    /\ userData = [i \in Controllers |-> [isSelecting |-> FALSE, inputSource |-> Null]]
    /\ controlsEnabled = TRUE
    /\ isPresenting = FALSE
    /\ hud = ""
    /\ frames = 0
    /\ armed = [i \in Controllers |-> userData[i].isSelecting]
    /\ last = Quiet("init")

\* ------------------------------------------------------------------- events
\* ctrl.addEventListener('connected', e => ctrl.userData.inputSource = e.data)
Connected(i, data) ==
    /\ rev \in {"main", "avp"}
    /\ userData' = [userData EXCEPT ![i].inputSource = data]
    /\ UNCHANGED armed
    /\ last' = Quiet("event")
    /\ UNCHANGED <<rev, position, yaw, controllerStates, controlsEnabled,
                   isPresenting, hud, frames>>

\* A variant of the 'disconnected' listener that also clears the hand slots:
\* C12 does not hold of it.
MutDisconnectResets(i) ==
    /\ rev \in {"main", "avp"}
    /\ userData' = [userData EXCEPT ![i].inputSource = Null]
    /\ controllerStates' = resetStates
    /\ armed' = [armed EXCEPT ![i] = FALSE]
    /\ last' = Quiet("event")
    /\ UNCHANGED <<rev, position, yaw, controlsEnabled, isPresenting, hud, frames>>

\* ctrl.addEventListener('disconnected', ...)
Disconnected(i) ==
    /\ rev \in {"main", "avp"}
    /\ userData' = [userData EXCEPT ![i].inputSource = Null]
    /\ armed' = [armed EXCEPT ![i] = FALSE]
    /\ last' = Quiet("event")
    /\ UNCHANGED <<rev, position, yaw, controllerStates, controlsEnabled,
                   isPresenting, hud, frames>>

\* ctrl.addEventListener('selectstart', ...)
SelectStart(i) ==
    /\ rev \in {"main", "avp"}
    /\ userData' = [userData EXCEPT ![i].isSelecting = TRUE]
    /\ armed' = [armed EXCEPT ![i] = TRUE]
    /\ last' = Quiet("event")
    /\ UNCHANGED <<rev, position, yaw, controllerStates, controlsEnabled,
                   isPresenting, hud, frames>>

\* ctrl.addEventListener('selectend', ...)
SelectEnd(i) ==
    /\ rev \in {"main", "avp"}
    /\ userData' = [userData EXCEPT ![i].isSelecting = FALSE]
    /\ armed' = [armed EXCEPT ![i] = FALSE]
    /\ last' = Quiet("event")
    /\ UNCHANGED <<rev, position, yaw, controllerStates, controlsEnabled,
                   isPresenting, hud, frames>>

\* document.addEventListener('mousedown', onMouseDown): picks a mesh and
\* recolours it; nothing of the rig or the input state is touched.
MouseDown ==
    /\ UNCHANGED armed
    /\ last' = Quiet("event")
    /\ UNCHANGED <<rev, position, yaw, controllerStates, userData, controlsEnabled,
                   isPresenting, hud, frames>>

\* window.addEventListener('resize', ...): camera aspect and renderer size.
Resize ==
    /\ UNCHANGED armed
    /\ last' = Quiet("event")
    /\ UNCHANGED <<rev, position, yaw, controllerStates, userData, controlsEnabled,
                   isPresenting, hud, frames>>

\* The XR session starts or ends: renderer.xr.isPresenting flips.
SessionChange ==
    /\ isPresenting' = ~isPresenting
    /\ UNCHANGED armed
    /\ last' = Quiet("session")
    /\ UNCHANGED <<rev, position, yaw, controllerStates, userData,
                   controlsEnabled, hud, frames>>

\* ----------------------------------------------------------- animation loop
\* A variant of the else branch that does not re-enable the orbit controls:
\* C16 does not hold of it.
MutDesktopKeepsControls ==
    /\ UNCHANGED <<controlsEnabled, armed>>
    /\ last' = Quiet("desktop")
    /\ UNCHANGED <<rev, position, yaw, controllerStates, userData,
                   isPresenting, hud, frames>>

\* the else branch of every revision's loop: controls.enabled = true
DesktopFrame ==
    /\ controlsEnabled' = TRUE
    /\ UNCHANGED armed
    /\ last' = Quiet("desktop")
    /\ UNCHANGED <<rev, position, yaw, controllerStates, userData,
                   isPresenting, hud, frames>>

\* what an XR frame sampled and did
Sampled(frame, view, rays, hands, dt, used, afterAxes) ==
    [op |-> "xr", frame |-> frame, cam |-> view.cam, rays |-> rays, hands |-> hands,
     elapsed |-> view.elapsed, dt |-> dt, before |-> position, yawBefore |-> yaw,
     statesBefore |-> controllerStates, usedAxes |-> used, afterAxes |-> afterAxes]

\* renderer.setAnimationLoop((t, frame) => ...) of main.js
AnimationLoopMain(dom) ==
    /\ rev = "main"
    /\ IF isPresenting
       THEN /\ frames < MaxFrames
            /\ \E view \in dom.views, frame \in dom.frames, rays \in dom.rays :
               \E cam \in {view.cam} :
               \E dt \in {Min(view.elapsed, MaxDt)} :
               \E st \in {updateInputStates(frame)} :
               \E ax \in {applyAVPAxesMain(st, position, cam.dir, dt, hud)} :
               \E sel \in {IF ax.used THEN [pos |-> ax.pos, hud |-> ax.hud]
                           ELSE applyAVPSelectStepMain(st, ax.pos, userData, rays, dt)} :
                  /\ controlsEnabled' = FALSE
                  /\ controllerStates' = st
                  /\ position' = sel.pos
                  /\ hud' = sel.hud
                  /\ frames' = frames + 1
                  /\ UNCHANGED armed
                  /\ last' = Sampled(frame, view, rays, NoHands, dt, ax.used, ax.pos)
                  /\ UNCHANGED <<rev, yaw, userData, isPresenting>>
       ELSE DesktopFrame

\* renderer.setAnimationLoop((t, frame) => ...) of the "avp" revision
AnimationLoopAVP(dom) ==
    /\ rev = "avp"
    /\ IF isPresenting
       THEN /\ frames < MaxFrames
            /\ \E view \in dom.views, frame \in dom.frames, rays \in dom.rays :
               \E cam \in {view.cam} :
               \E dt \in {Min(view.elapsed, MaxDt)} :
               \E st \in {updateInputStates(frame)} :
               \E ax \in {applyAVPAxesAVP(st, position, cam.dir, dt, hud)} :
               \E pos \in {IF ax.used THEN ax.pos
                           ELSE applyAVPSelectStepAVP(st, ax.pos, userData, rays, dt)} :
                  /\ controlsEnabled' = FALSE
                  /\ controllerStates' = st
                  /\ position' = pos
                  /\ frames' = frames + 1
                  /\ UNCHANGED armed
                  /\ last' = Sampled(frame, view, rays, NoHands, dt, ax.used, ax.pos)
                  /\ UNCHANGED <<rev, yaw, userData, isPresenting, hud>>
       ELSE DesktopFrame

\* renderer.setAnimationLoop(() => ...) of the "hands" revision
AnimationLoopHands(dom) ==
    /\ rev = "hands"
    /\ IF isPresenting
       THEN /\ frames < MaxFrames
            /\ \E view \in dom.views, session \in dom.sessions, hands \in dom.hands :
               \E cam \in {view.cam} :
               \E dt \in {Min(view.elapsed, MaxDt)} :
               \E rig \in {[pos |-> position, yaw |-> yaw]} :
               \E stick \in {IF session = Null THEN rig
                             ELSE stickSteps(rig, session.inputSources, cam, dt)} :
               \E out \in {updateXRMovement(rig, session, hands, cam, dt)} :
                  /\ controlsEnabled' = FALSE
                  /\ position' = out.pos
                  /\ yaw' = out.yaw
                  /\ frames' = frames + 1
                  /\ UNCHANGED armed
                  /\ last' = Sampled([session |-> session], view, NoRays, hands, dt,
                                     stick # rig, stick.pos)
                  /\ UNCHANGED <<rev, controllerStates, userData, isPresenting, hud>>
       ELSE DesktopFrame

Next ==
    \/ \E i \in Controllers, data \in ConnectSources : Connected(i, data)
    \/ \E i \in Controllers : Disconnected(i)
    \/ \E i \in Controllers : SelectStart(i)
    \/ \E i \in Controllers : SelectEnd(i)
    \/ MouseDown
    \/ Resize
    \/ SessionChange
    \/ AnimationLoopMain(DomBasic)
    \/ AnimationLoopAVP(DomBasic)
    \/ AnimationLoopHands(DomBasic)

Spec == Init /\ [][Next]_vars

\* The sampling specification: the session is presenting, controller 1 is
\* connected as a Vision-Pro-like source, with select held or not, and
\* controller 2 as a source that is not Vision-Pro-like, with select held
\* (where the revision listens to controllers); only frames run.
InitAxes ==
    /\ rev \in Revisions
    /\ position = DollyStart
    /\ yaw = 0
    /\ controllerStates = resetStates
    /\ \E held \in IF rev = "hands" THEN {FALSE} ELSE BOOLEAN :
          userData = [i \in Controllers |->
                        IF rev = "hands"
                        THEN [isSelecting |-> FALSE, inputSource |-> Null]
                        ELSE IF i = 1
                        THEN [isSelecting |-> held,
                              inputSource |-> Src("none", PlainProfiles, Null)]
                        ELSE [isSelecting |-> TRUE,
                              inputSource |-> Src("right", PlainProfiles, Null)]]
    /\ controlsEnabled = TRUE
    /\ isPresenting = TRUE
    /\ hud = ""
    /\ frames = 0
    /\ armed = [i \in Controllers |-> userData[i].isSelecting]
    /\ last = Quiet("init")

NextAxes ==
    \/ AnimationLoopMain(DomAxes)
    \/ AnimationLoopAVP(DomAxes)
    \/ AnimationLoopHands(DomAxes)

SpecAxes == InitAxes /\ [][NextAxes]_vars

\* ================================================================== claims
XRFrame == last.op = "xr"
AVPRev == rev \in {"main", "avp"}
Sides == {"left", "right"}

\* the sources the last XR frame reported (none without a frame or a session)
FrameSources ==
    IF last.frame = Null THEN <<>>
    ELSE IF last.frame.session = Null THEN <<>>
    ELSE last.frame.session.inputSources

Delta == Vec(position[1] - last.before[1], position[2] - last.before[2],
             position[3] - last.before[3])
HeadForward == headForwardXZ(last.cam.dir)

\* C1: in every XR frame in which an axis beyond the deadzone drives the rig,
\* the axis-drive translation is the only change of the rig position: no
\* pinch/select stepping is added in the same frame (every revision).
C1_OneModePerFrame ==
    (XRFrame /\ last.usedAxes) => position = last.afterAxes

\* controller i has select held and a source the code steps for
Stepping(i) ==
    userData[i].isSelecting /\ isVisionProInputSource(userData[i].inputSource)

\* C2: in every XR frame of the AVP revisions in which both controllers are
\* Vision-Pro-like and have select held, and no axis is beyond the deadzone,
\* the rig moves backward along head-forward only (the dual-pinch path), and
\* no forward step along either controller's ray is applied.
C2_DualPinchBackward ==
    (XRFrame /\ AVPRev /\ (\A i \in Controllers : Stepping(i)) /\ ~last.usedAxes /\ ~anyAxes(controllerStates))
        => /\ cross(Delta, HeadForward) = Zero3
           /\ dot(Delta, HeadForward) < 0

\* a hand slot holds an axis component beyond the deadzone
SlotBeyond(side) ==
    \/ Abs(controllerStates[side].x) > deadzone
    \/ Abs(controllerStates[side].y) > deadzone

\* C3: in every XR frame of the AVP revisions, if the sampled axis of any
\* hand slot, left or right, Vision-Pro-like or not, exceeds the deadzone,
\* applyAVPAxes returns true (the axis-drive path is taken).
C3_AnySlotDrives ==
    (XRFrame /\ AVPRev /\ (\E side \in Sides : SlotBeyond(side))) => last.usedAxes

\* the deadzone filter as the specification words it: a magnitude of at
\* least the threshold is nonzero
Filtered(v) == IF Abs(v) >= deadzone THEN v ELSE 0

\* the Y axis of the hand that drives: the left slot's when one of its
\* filtered axes is nonzero, else the right slot's
DrivingY ==
    IF Filtered(controllerStates.left.x) # 0 \/ Filtered(controllerStates.left.y) # 0
    THEN Filtered(controllerStates.left.y)
    ELSE Filtered(controllerStates.right.y)

\* C4: in every XR frame of the AVP revisions in which the axis-drive path
\* applies, the rig position after the frame is the position before plus
\* forward * (-y) * moveSpeed * dt, with forward the flattened head direction
\* and y the filtered Y axis of the driving hand; nothing else is added.
C4_AxisDriveExact ==
    (XRFrame /\ AVPRev /\ last.usedAxes)
        => position = addScaledVector(last.before, HeadForward,
                                      (-DrivingY) * moveSpeed * last.dt)

\* C4's case: a tilted head, a left stick pushed forward and sideways, and
\* the rig has moved.
C4_Witness ==
    /\ XRFrame /\ AVPRev /\ last.usedAxes
    /\ last.cam = PoseTilted
    /\ controllerStates.left.x = 100 /\ controllerStates.left.y = -100
    /\ position # last.before

\* every axis the frame's sticks reported is below the stick deadzone
SticksBelow ==
    \A i \in 1..Len(FrameSources) :
        FrameSources[i].gamepad # Null =>
            /\ Abs(axisOrZero(FrameSources[i].gamepad.axes, 0)) < stickDeadzone
            /\ Abs(axisOrZero(FrameSources[i].gamepad.axes, 1)) < stickDeadzone

SlotsBelow ==
    \A side \in Sides :
        /\ Abs(controllerStates[side].x) < deadzone
        /\ Abs(controllerStates[side].y) < deadzone

\* C5: in every XR frame in which the axis values of both hand slots are
\* below the deadzone, applyAVPAxes returns false and leaves the rig position
\* unchanged; in the "hands" revision, sticks below the stick deadzone leave
\* the position unchanged by the stick part of updateXRMovement.
C5_BelowDeadzoneNoDrive ==
    XRFrame =>
        /\ (AVPRev /\ SlotsBelow) => (~last.usedAxes /\ last.afterAxes = last.before)
        /\ (rev = "hands" /\ SticksBelow) => last.afterAxes = last.before

\* C5's case: a left stick at (0.10, 0.10), under the deadzone, was sampled
\* and the axis-drive left the rig where it was.
C5_Witness ==
    /\ XRFrame /\ AVPRev
    /\ controllerStates.left.x = 10 /\ controllerStates.left.y = 10
    /\ SlotsBelow
    /\ last.afterAxes = last.before

\* every axis of both hand slots is zero or exactly at the deadzone, and one
\* is at the deadzone
SlotsAtBoundary ==
    /\ \A side \in Sides :
          /\ Abs(controllerStates[side].x) \in {0, deadzone}
          /\ Abs(controllerStates[side].y) \in {0, deadzone}
    /\ \E side \in Sides :
          \/ Abs(controllerStates[side].x) = deadzone
          \/ Abs(controllerStates[side].y) = deadzone

\* every stick axis of the frame is under or exactly at the stick deadzone
SticksAtMostBoundary ==
    \A i \in 1..Len(FrameSources) :
        FrameSources[i].gamepad # Null =>
            /\ Abs(axisOrZero(FrameSources[i].gamepad.axes, 0)) <= stickDeadzone
            /\ Abs(axisOrZero(FrameSources[i].gamepad.axes, 1)) <= stickDeadzone

\* C6 as stated: an axis value exactly at the deadzone threshold is treated
\* as zero wherever the deadzone is applied, so it never drives the rig:
\* applyAVPAxes returns false on it and the sticks of updateXRMovement do not
\* move the rig.
C6_BoundaryIsZero ==
    XRFrame =>
        /\ (AVPRev /\ SlotsAtBoundary) => ~last.usedAxes
        /\ (rev = "hands" /\ SticksAtMostBoundary) => last.afterAxes = last.before

\* the frame has one stick, pushed along Y exactly to the stick deadzone
OneStickAtBoundary ==
    /\ Len(FrameSources) = 1
    /\ FrameSources[1].gamepad # Null
    /\ axisOrZero(FrameSources[1].gamepad.axes, 0) = 0
    /\ Abs(axisOrZero(FrameSources[1].gamepad.axes, 1)) = stickDeadzone

\* C6, amended: the deadzone comparisons are strict. The component filters
\* of applyAVPAxes and of updateXRMovement keep a value exactly at the
\* threshold, which drives the rig by that value; the magnitude test of
\* applyAVPSelectStep counts a slot as active only above the threshold, so a
\* slot exactly at it does not stop the select step of a selecting controller.
C6_BoundaryOperators ==
    XRFrame =>
        /\ (AVPRev /\ controllerStates.left.x = 0
                   /\ Abs(controllerStates.left.y) = deadzone)
              => /\ last.usedAxes
                 /\ position = addScaledVector(last.before, HeadForward,
                        (-controllerStates.left.y) * moveSpeed * last.dt)
        /\ (AVPRev /\ ~last.usedAxes /\ SlotsAtBoundary
                   /\ Stepping(1) /\ ~Stepping(2) /\ setY0(last.rays[1]) # Zero3)
              => position # last.before
        /\ (rev = "hands" /\ OneStickAtBoundary)
              => last.afterAxes = addScaledVector(last.before, HeadForward,
                        (-axisOrZero(FrameSources[1].gamepad.axes, 1))
                            * moveSpeedHands * last.dt)

\* C6's case: a left stick exactly at the deadzone was sampled and drove
\* the rig.
C6_Witness ==
    /\ XRFrame /\ AVPRev
    /\ controllerStates.left.x = 0 /\ controllerStates.left.y = deadzone
    /\ last.usedAxes
    /\ position # last.before

\* the step speed of the revision that runs
StepSpeed == IF rev = "main" THEN stepSpeedMain ELSE stepSpeedAVP

\* controller i alone has select held, is Vision-Pro-like and points along a
\* ray that is not vertical, in a frame without an axis beyond the deadzone
SingleSelect(i) ==
    /\ XRFrame /\ AVPRev
    /\ ~last.usedAxes
    /\ ~(\E side \in Sides : SlotBeyond(side))
    /\ Stepping(i)
    /\ \A j \in Controllers \ {i} : ~userData[j].isSelecting
    /\ setY0(last.rays[i]) # Zero3

\* C7: in an XR frame without an axis beyond the deadzone in which exactly
\* one controller has select held, the rig moves forward, toward where that
\* controller points, along its pointing ray flattened to Y=0, by
\* stepSpeed * dt, with the same sign in every revision.
C7_SingleSelectForward ==
    \A i \in Controllers :
        SingleSelect(i)
            => position = addScaledVector(last.before, normalize(setY0(last.rays[i])),
                                          100 * StepSpeed * last.dt)

\* every axis every source of the frame reported is zero
ZeroAxes ==
    \A i \in 1..Len(FrameSources) :
        FrameSources[i].gamepad # Null =>
            \A k \in 1..Len(FrameSources[i].gamepad.axes) :
                FrameSources[i].gamepad.axes[k] = 0

\* no controller has select held (AVP revisions), no hand pinches ("hands")
NoPinch ==
    IF AVPRev
    THEN \A i \in Controllers : ~userData[i].isSelecting
    ELSE \A h \in 1..2 :
            \/ last.hands[h].joints = Null
            \/ last.hands[h].joints.tipDistance >= pinchThreshold

\* C8: an XR frame with zero input (all axes zero, no hand pinching or
\* selecting) leaves the rig position and yaw as they were before it, so any
\* number of such frames in a row leaves them as before the first.
C8_ZeroInputIdempotent ==
    (XRFrame /\ ZeroAxes /\ NoPinch)
        => (position = last.before /\ yaw = last.yawBefore)

\* C8's case: the second frame in a row, with a connected Vision-Pro-like
\* controller that is not selecting and a stick at rest, and the rig is
\* where it started.
C8_Witness ==
    /\ XRFrame /\ ZeroAxes /\ NoPinch
    /\ frames = 2
    /\ Len(FrameSources) > 0
    /\ FrameSources[1].gamepad # Null
    /\ AVPRev /\ isVisionProInputSource(userData[1].inputSource)
    /\ position = DollyStart /\ yaw = 0

\* the source maps to the hand slot: 'left' to the left slot, any other
\* handedness to the right slot, and 'none' to the left slot as well
MapsTo(src, side) ==
    /\ src.gamepad # Null
    /\ IF side = "left" THEN src.handedness \in {"left", "none"}
                        ELSE src.handedness # "left"

\* C9: after updateInputStates has run for a frame, a hand slot to which no
\* source of that frame maps has axes (0,0), isVision false and input null,
\* whatever the frames before contained.
C9_NoStaleSlot ==
    (XRFrame /\ AVPRev)
        => \A side \in Sides :
              (~\E i \in 1..Len(FrameSources) : MapsTo(FrameSources[i], side))
                  => controllerStates[side] = EmptySlot

\* C9's case: the left slot was populated by the frame before, this frame
\* reports a right source only, and the left slot is empty again.
C9_Witness ==
    /\ XRFrame /\ AVPRev
    /\ frames = 2
    /\ last.statesBefore.left.input # Null
    /\ last.statesBefore.left.y # 0
    /\ Len(FrameSources) = 1
    /\ controllerStates.right.input # Null
    /\ controllerStates.left = EmptySlot

\* a source updateInputStates reads no axes from: no gamepad, or fewer than
\* two axes
NoAxesData(src) ==
    IF src.gamepad = Null THEN TRUE ELSE Len(src.gamepad.axes) < 2

\* the frame, its session or the axes of every source are missing
AbsentAVP ==
    /\ AVPRev
    /\ \A i \in 1..Len(FrameSources) : NoAxesData(FrameSources[i])

\* the session is missing, or no source has a gamepad and no hand has joints
AbsentHands ==
    /\ rev = "hands"
    /\ \/ last.frame.session = Null
       \/ /\ \A i \in 1..Len(FrameSources) : FrameSources[i].gamepad = Null
          /\ \A h \in 1..2 : last.hands[h].joints = Null

Steppers == {i \in Controllers : Stepping(i)}

\* a displacement in units of 1/5000 m (select steps are whole in them)
Coarse(v) == Vec(v[1] \div 1000, v[2] \div 1000, v[3] \div 1000)

\* 0.05 * stepSpeed in units of 1/5000 m, and 0.05 * moveSpeed measured along
\* a direction vector (length 5) in position units
StepReach == (5 * 100 * StepSpeed * MaxDt) \div 1000
AxisReach(speed) == 25 * 100 * speed * MaxDt

\* the displacement lies along the head-forward direction and is at most
\* 0.05 * speed long
AlongHeadWithin(speed) ==
    /\ cross(Delta, HeadForward) = Zero3
    /\ Abs(dot(Delta, HeadForward)) <= AxisReach(speed)

C12_HandlersLeaveRig ==
    [][last'.op = "event" => UNCHANGED <<controllerStates, position, yaw>>]_vars

\* C12's case: a handler ran after a frame that had populated the left slot
\* and moved the rig, with select held on controller 1.
C12_Witness ==
    /\ last.op = "event"
    /\ frames > 0
    /\ controllerStates.left.input # Null
    /\ position # DollyStart
    /\ userData[1].isSelecting

\* the frame reports a Vision-Pro-like source of handedness 'none' that has
\* a gamepad
NoneSourceSampled ==
    \E i \in 1..Len(FrameSources) :
        /\ FrameSources[i].handedness = "none"
        /\ FrameSources[i].gamepad # Null
        /\ isVisionProInputSource(FrameSources[i])

\* C13: after updateInputStates for a frame with a Vision-Pro-like source of
\* handedness 'none' that has a gamepad, the left slot is populated (input
\* non-null, isVision true), and the slot of every source of the same frame
\* that reported a real handedness still holds that source.
C13_NoneToDefaultSide ==
    (XRFrame /\ AVPRev /\ NoneSourceSampled)
        => /\ controllerStates.left.input # Null
           /\ controllerStates.left.isVision
           /\ \A j \in 1..Len(FrameSources) :
                 (FrameSources[j].handedness \in Sides /\ FrameSources[j].gamepad # Null)
                     => controllerStates[FrameSources[j].handedness].input = FrameSources[j]

\* C14: in every XR frame of the AVP revisions in which applyAVPAxes returns
\* false, the stepping loop of applyAVPSelectStep is reached: a single
\* selecting Vision-Pro-like controller with a non-vertical ray moves the rig
\* in that frame.
C14_AxesTestsAgree ==
    \A i \in Controllers :
        (XRFrame /\ AVPRev /\ ~last.usedAxes
                /\ Steppers = {i} /\ setY0(last.rays[i]) # Zero3)
            => position # last.before

\* C15: the rig is moved by select stepping in a frame only if some
\* controller has had a selectstart with no selectend and no disconnected
\* event since; after a disconnected event a controller does not move the
\* rig again, even once reconnected, until a new selectstart arrives.
C15_StepOnlyWhileArmed ==
    (XRFrame /\ AVPRev /\ position # last.afterAxes)
        => \E i \in Controllers : armed[i] /\ Stepping(i)

\* the step just taken was a frame of the animation loop
AfterFrame == last.op \in {"xr", "desktop"}

\* C16: after every frame of the animation loop, over any sequence of
\* entering and leaving XR presentation, the orbit controls are enabled
\* exactly when the renderer is not presenting; and a frame run while not
\* presenting leaves the rig position, the yaw and the per-hand state
\* unchanged, whatever the controllers' select flags are.
C16_ControlsIffDesktop ==
    /\ [](AfterFrame => (controlsEnabled <=> ~isPresenting))
    /\ [][last'.op = "desktop" => UNCHANGED <<position, yaw, controllerStates>>]_vars

\* C16's case: a desktop frame ran after the session was left, with select
\* still held on a connected controller, a populated hand slot and a rig
\* that had moved in XR.
C16_Witness ==
    /\ last.op = "desktop"
    /\ controlsEnabled /\ ~isPresenting
    /\ frames > 0
    /\ Stepping(1)
    /\ controllerStates.left.input # Null
    /\ position # DollyStart

\* C17: the rig's height never changes: after any sequence of frames, in
\* every revision, the rig's Y coordinate equals its initial value, also when
\* the head or a controller ray points straight up or down or is tilted.
C17_HeightUnchanged == position[2] = DollyStart[2]

\* C17's case: a controller pointing downwards at an angle stepped the rig,
\* with the head looking straight down.
C17_Witness ==
    /\ XRFrame /\ AVPRev
    /\ Stepping(2)
    /\ last.rays[2] = RayTilted
    /\ last.cam = PoseDown
    /\ position # last.before
    /\ position[2] = DollyStart[2]

\* the head directions and clamped time steps a frame can present
HeadDirs == {PoseAhead.dir, PoseTilted.dir, PoseDown.dir}
TimeSteps == {Min(FrameTime, MaxDt), Min(StallTime, MaxDt)}

\* C18: applyAVPAxes of main.js and of the "avp" revision agree: on every
\* per-hand state the sampler can produce, every head direction and every
\* time step, both return the same boolean and the same rig position, the
\* Vision-Pro and the other branch of the "avp" revision being alike; only
\* main.js rewrites the HUD.
C18_AxesEquivalent ==
    \A camDir \in HeadDirs : \A dt \in TimeSteps :
        LET m == applyAVPAxesMain(controllerStates, position, camDir, dt, hud)
            a == applyAVPAxesAVP(controllerStates, position, camDir, dt, hud)
        IN /\ m.used = a.used
           /\ m.pos = a.pos
           /\ a.hud = hud
           /\ (XRFrame /\ AVPRev /\ last.usedAxes) =>
                  position = applyAVPAxesMain(controllerStates, last.before,
                                              last.cam.dir, last.dt, hud).pos

\* C18's case: a frame of the "avp" revision drove the rig through the branch
\* for sources that are not Vision-Pro-like, and the axes would drive again.
C18_Witness ==
    /\ XRFrame /\ rev = "avp" /\ last.usedAxes
    /\ ~controllerStates.left.isVision /\ ~controllerStates.right.isVision
    /\ position # last.before
    /\ applyAVPAxesAVP(controllerStates, position, PoseTilted.dir, MaxDt, hud).pos # position

=============================================================================
